---- MODULE Spec2Model ----
(***************************************************************************)
(* Model of ome_zarr_conformance.py: fixture resolution (get_data), the    *)
(* flattening of suites into test cases (iter_tests), identifier           *)
(* derivation (slug / file_stem / test_id), include/exclude filtering and  *)
(* the thread-pool execution engine (run_tests / run_test), and the        *)
(* reporting loop and exit code of main.                                   *)
(*                                                                         *)
(* Python strings are sequences of one-character strings, so that the      *)
(* string surgery of the source (lower, endswith, split, replace) is       *)
(* computed and not assumed.  An optional value (str | None) is a sequence *)
(* of length 0 (None) or 1 (the value).                                    *)
(***************************************************************************)
EXTENDS Integers, Sequences, FiniteSets, TLC

----------------------------------------------------------------------------
(* Python str operations *)

None == <<>>
Some(x) == <<x>>

\* truthiness of a str | None: neither None nor the empty string
Truthy(o) == o # None /\ Len(o[1]) > 0

UpperChars == <<"A","B","C","D","E","F","G","H","I","J","K","L","M",
                "N","O","P","Q","R","S","T","U","V","W","X","Y","Z">>
LowerChars == <<"a","b","c","d","e","f","g","h","i","j","k","l","m",
                "n","o","p","q","r","s","t","u","v","w","x","y","z">>

LowerChar(c) ==
    IF \E i \in 1..Len(UpperChars) : UpperChars[i] = c
    THEN LowerChars[CHOOSE i \in 1..Len(UpperChars) : UpperChars[i] = c]
    ELSE c

\* str.lower()
Lower(s) == [i \in 1..Len(s) |-> LowerChar(s[i])]

\* str.endswith(suff)
EndsWith(s, suff) ==
    /\ Len(suff) <= Len(s)
    /\ SubSeq(s, Len(s) - Len(suff) + 1, Len(s)) = suff

\* str.startswith(pref)
StartsWith(s, pref) ==
    /\ Len(pref) <= Len(s)
    /\ SubSeq(s, 1, Len(pref)) = pref

\* s[:-len(suff)] when s ends with suff, else s
StripSuffix(s, suff) ==
    IF EndsWith(s, suff) THEN SubSeq(s, 1, Len(s) - Len(suff)) ELSE s

\* s[len(pref):] when s starts with pref, else s
StripPrefix(s, pref) ==
    IF StartsWith(s, pref) THEN SubSeq(s, Len(pref) + 1, Len(s)) ELSE s

\* str.replace(a, b) for one-character a and b
ReplaceChar(s, a, b) == [i \in 1..Len(s) |-> IF s[i] = a THEN b ELSE s[i]]

\* s.split(sep)[-1]: what follows the last sep (all of s when there is none)
LastSegment(s, sep) ==
    LET idx == {i \in 1..Len(s) : s[i] = sep}
    IN  IF idx = {} THEN s
        ELSE LET last == CHOOSE i \in idx : \A j \in idx : j <= i
             IN  SubSeq(s, last + 1, Len(s))

\* s.split(sep, 1): the parts before and after the first sep
\* (a one-element list when s holds no sep)
SplitOnce(s, sep) ==
    LET idx == {i \in 1..Len(s) : s[i] = sep}
    IN  IF idx = {} THEN <<s>>
        ELSE LET first == CHOOSE i \in idx : \A j \in idx : i <= j
             IN  <<SubSeq(s, 1, first - 1), SubSeq(s, first + 1, Len(s))>>

IsSpace(c) == c \in {" ", "\t", "\n"}

\* str.split(): the maximal runs of non-whitespace characters, in order
RECURSIVE Words(_)
Words(s) ==
    IF s = <<>> THEN <<>>
    ELSE IF IsSpace(s[1]) THEN Words(Tail(s))
    ELSE LET stops == {i \in 1..Len(s) : IsSpace(s[i])}
             end   == IF stops = {} THEN Len(s) + 1
                      ELSE CHOOSE i \in stops : \A j \in stops : i <= j
         IN  <<SubSeq(s, 1, end - 1)>> \o Words(SubSeq(s, end, Len(s)))

\* sep.join(parts)
RECURSIVE Join(_, _)
Join(sep, parts) ==
    IF parts = <<>> THEN <<>>
    ELSE IF Len(parts) = 1 THEN parts[1]
    ELSE parts[1] \o sep \o Join(sep, Tail(parts))

Digits == <<"0","1","2","3","4","5","6","7","8","9">>

\* str(n) of a non-negative int
RECURSIVE DecStr(_)
DecStr(n) ==
    IF n < 10 THEN <<Digits[n + 1]>>
    ELSE DecStr(n \div 10) \o <<Digits[(n % 10) + 1]>>

\* format of a str | None inside an f-string
FormatOpt(o) == IF o = None THEN <<"N","o","n","e">> ELSE o[1]

\* re.Pattern.search for a pattern of literal characters: the pattern occurs
\* somewhere in s
Search(p, s) ==
    \E i \in 1..(Len(s) - Len(p) + 1) : SubSeq(s, i, i + Len(p) - 1) = p

----------------------------------------------------------------------------
(* Results of operations that may raise *)

Raised == [ok |-> FALSE]
Returned(v) == [ok |-> TRUE, v |-> v]

----------------------------------------------------------------------------
(* Literals of the source *)

DotJson == <<".","j","s","o","n">>
SuiteSuffix == <<"_","s","u","i","t","e">>
DotSchema == <<".","s","c","h","e","m","a">>
SchemasPrefix == <<"s","c","h","e","m","a","s","/">>
TestPrefix == <<"t","e","s","t","s","/">>
Placeholder == <<"T","B","D">>

V04 == <<"0",".","4">>
V05 == <<"0",".","5">>
DefaultVersions == <<V04, V05>>

----------------------------------------------------------------------------
(* JSON values as json.load returns them *)

JTrue == [t |-> "bool", b |-> TRUE, n |-> 0]
JFalse == [t |-> "bool", b |-> FALSE, n |-> 0]
JInt(n) == [t |-> "int", b |-> FALSE, n |-> n]

\* bool(x) of a JSON scalar
PyBool(j) == IF j.t = "bool" THEN j.b ELSE j.n # 0

\* json.dumps of the documents the fixtures below hold
JsonDumps(doc) ==
    CASE doc = "a1" -> "{\"a\": 1}"
      [] doc = "empty" -> "{}"
      [] OTHER -> "null"

----------------------------------------------------------------------------
(* Fixture objects: Test.from_jso, TestCase.from_jso *)

\* jso of one test: the keys in `missing` are absent from the object
TestJso(formerly, description, data, valid, missing) ==
    [formerly |-> formerly, description |-> description, data |-> data,
     valid |-> valid, missing |-> missing]

\* the parsed content of one fixture file; json_ok = FALSE: json.load raises
SuiteJso(description, schema_id, tests, missing) ==
    [json_ok |-> TRUE, description |-> description, schema_id |-> schema_id,
     tests |-> tests, missing |-> missing]

NotJsonFile ==
    [json_ok |-> FALSE, description |-> None, schema_id |-> <<>>,
     tests |-> <<>>, missing |-> {}]

Test_from_jso(jso) ==
    IF jso.missing \cap {"data", "valid"} # {} THEN Raised
    ELSE Returned([formerly |-> jso.formerly, description |-> jso.description,
                   data |-> jso.data, valid |-> PyBool(jso.valid)])

TestCase_from_jso(jso) ==
    IF jso.missing \cap {"schema", "id", "tests"} # {} THEN Raised
    ELSE IF \E i \in 1..Len(jso.tests) : ~Test_from_jso(jso.tests[i]).ok THEN Raised
    ELSE Returned([description |-> jso.description, schema_id |-> jso.schema_id,
                   tests |-> [i \in 1..Len(jso.tests) |->
                                 Test_from_jso(jso.tests[i]).v]])

----------------------------------------------------------------------------
(* The archives a run may meet *)

ZipEntry(filename, content) == [filename |-> filename, content |-> content]

CoreSuite ==
    SuiteJso(Some(<<"C","o","r","e">>), <<"s","c","h","e","m","a","s","/","c","o","r","e",".","s","c","h","e","m","a",".","j","s","o","n">>,
             << TestJso(None, Some(<<"B","a"," "," ","c">>), "a1", JTrue, {}),
                TestJso(Some(<<"L","e","g","a","c","y","/","O","l","d",".","J","S","O","N">>), None, "empty", JFalse, {}) >>,
             {})

ImgSuite ==
    SuiteJso(None, <<"s","c","h","e","m","a","s","/","i","m","g",".","s","c","h","e","m","a">>,
             << TestJso(None, Some(Placeholder), "empty", JInt(1), {}) >>,
             {})

EmptySuite == SuiteJso(None, <<"s","c","h","e","m","a","s","/","i","m","g",".","s","c","h","e","m","a">>, <<>>, {})

PlateSuite ==
    SuiteJso(None, <<"p","l","a","t","e",".","s","c","h","e","m","a",".","j","s","o","n">>,
             << TestJso(Some(<<>>), Some(<<" ","x","\t","Y"," ">>), "a1", JFalse, {}) >>,
             {})

BrokenSuite ==
    SuiteJso(None, <<"s","c","h","e","m","a","s","/","i","m","g",".","s","c","h","e","m","a">>,
             << TestJso(None, None, "a1", JTrue, {"valid"}) >>, {})

GoodEntriesA ==
    << ZipEntry(<<"r","/">>, NotJsonFile),
       ZipEntry(<<"r","/","s","c","h","e","m","a","s","/","c","o","r","e",".","j","s","o","n">>, NotJsonFile),
       ZipEntry(<<"r","/","t","e","s","t","s","/","e",".","j","s","o","n">>, EmptySuite),
       ZipEntry(<<"r","/","t","e","s","t","s","/","c","o","r","e",".","j","s","o","n">>, CoreSuite) >>

GoodEntriesB ==
    << ZipEntry(<<"r","/","t","e","s","t","s","/","R","E","A","D","M","E",".","m","d">>, NotJsonFile),
       ZipEntry(<<"r","/","t","e","s","t","s","/","I","m","g","_","s","u","i","t","e",".","j","s","o","n">>, ImgSuite),
       ZipEntry(<<"r","/","t","e","s","t","s","/","A","b","_","s","u","i","t","e",".","j","s","o","n">>, PlateSuite) >>

BadEntries ==
    << ZipEntry(<<"r","/","t","e","s","t","s","/","c","o","r","e",".","j","s","o","n">>, CoreSuite),
       ZipEntry(<<"r","/","t","e","s","t","s","/","b","a","d",".","j","s","o","n">>, BrokenSuite) >>

UnparsableEntries ==
    << ZipEntry(<<"r","/","t","e","s","t","s","/","b","a","d",".","j","s","o","n">>, NotJsonFile),
       ZipEntry(<<"r","/","t","e","s","t","s","/","c","o","r","e",".","j","s","o","n">>, CoreSuite) >>

ZipArchive(cached, fetch_ok, zip_ok, entries) ==
    [cached |-> cached, fetch_ok |-> fetch_ok, zip_ok |-> zip_ok,
     entries |-> entries]

ArchiveIds == {"goodA", "goodB", "nofetch", "corrupt", "badfixture", "notjson"}

ArchiveOf(id) ==
    CASE id = "goodA" -> ZipArchive(TRUE, TRUE, TRUE, GoodEntriesA)
      [] id = "goodB" -> ZipArchive(FALSE, TRUE, TRUE, GoodEntriesB)
      [] id = "nofetch" -> ZipArchive(FALSE, FALSE, TRUE, GoodEntriesA)
      [] id = "corrupt" -> ZipArchive(TRUE, TRUE, FALSE, <<>>)
      [] id = "badfixture" -> ZipArchive(TRUE, TRUE, TRUE, BadEntries)
      [] id = "notjson" -> ZipArchive(FALSE, TRUE, TRUE, UnparsableEntries)

----------------------------------------------------------------------------
(* Fixture Store: retrieve, get_data *)

\* retrieve: a cached archive is reused, else urlretrieve must succeed
Retrieve(archive) == archive.cached \/ archive.fetch_ok

\* test_cases[key] = value on an insertion-ordered dict, kept as a sequence
\* of [file_name, test_case] items
DictSet(d, key, value) ==
    IF \E i \in 1..Len(d) : d[i].file_name = key
    THEN [i \in 1..Len(d) |->
             IF d[i].file_name = key
             THEN [file_name |-> key, test_case |-> value] ELSE d[i]]
    ELSE Append(d, [file_name |-> key, test_case |-> value])

\* the loop over z.infolist(), from entry i on, with test_cases so far
RECURSIVE ReadEntries(_, _, _)
ReadEntries(entries, i, test_cases) ==
    IF i > Len(entries) THEN Returned(test_cases)
    ELSE LET parts == SplitOnce(entries[i].filename, "/")
         IN  IF Len(parts) < 2 THEN Raised
             ELSE LET name == parts[2]
                  IN  IF ~EndsWith(name, DotJson)
                      THEN ReadEntries(entries, i + 1, test_cases)
                      ELSE IF ~StartsWith(name, TestPrefix)
                      THEN ReadEntries(entries, i + 1, test_cases)
                      ELSE IF ~entries[i].content.json_ok THEN Raised
                      ELSE LET tc == TestCase_from_jso(entries[i].content)
                           IN  IF ~tc.ok THEN Raised
                               ELSE ReadEntries(entries, i + 1,
                                        DictSet(test_cases,
                                                StripPrefix(name, TestPrefix),
                                                tc.v))

\* the loop over z.infolist() skipping a fixture file that does not decode
RECURSIVE ReadEntriesLenient(_, _, _)
ReadEntriesLenient(entries, i, test_cases) ==
    IF i > Len(entries) THEN Returned(test_cases)
    ELSE LET parts == SplitOnce(entries[i].filename, "/")
         IN  IF Len(parts) < 2 THEN Raised
             ELSE LET name == parts[2]
                  IN  IF \/ ~EndsWith(name, DotJson)
                         \/ ~StartsWith(name, TestPrefix)
                         \/ ~entries[i].content.json_ok
                         \/ ~TestCase_from_jso(entries[i].content).ok
                      THEN ReadEntriesLenient(entries, i + 1, test_cases)
                      ELSE ReadEntriesLenient(entries, i + 1,
                               DictSet(test_cases,
                                       StripPrefix(name, TestPrefix),
                                       TestCase_from_jso(entries[i].content).v))

\* get_data that skips malformed fixture files
get_data_lenient(version, archive) ==
    IF ~Retrieve(archive) THEN Raised
    ELSE IF ~archive.zip_ok THEN Raised
    ELSE LET r == ReadEntriesLenient(archive.entries, 1, <<>>)
         IN  IF ~r.ok THEN Raised
             ELSE Returned([version |-> version, test_cases |-> r.v])

get_data(version, archive) ==
    IF ~Retrieve(archive) THEN Raised
    ELSE IF ~archive.zip_ok THEN Raised
    ELSE LET r == ReadEntries(archive.entries, 1, <<>>)
         IN  IF ~r.ok THEN Raised
             ELSE Returned([version |-> version, test_cases |-> r.v])

----------------------------------------------------------------------------
(* Test Flattener: VersionTestData.iter_tests and the TestData methods *)

TestData(case_description, schema_id, version, file_name, index, formerly, description, zarr_attributes_str, valid) ==
    [case_description |-> case_description, schema_id |-> schema_id,
     version |-> version, file_name |-> file_name, index |-> index,
     formerly |-> formerly, description |-> description,
     zarr_attributes_str |-> zarr_attributes_str, valid |-> valid]

\* enumerate(test_case.tests, 1)
EnumIndex_one(i) == i

\* enumerate(test_case.tests): the index of the i-th test
EnumIndex(i) == i - 1

\* the inner loop of iter_tests over one suite
SuiteTests(version, item) ==
    [i \in 1..Len(item.test_case.tests) |->
        LET test == item.test_case.tests[i]
        IN  TestData(item.test_case.description, item.test_case.schema_id,
                     version, item.file_name, EnumIndex(i), test.formerly,
                     test.description, JsonDumps(test.data), test.valid)]

RECURSIVE IterFrom(_, _)
IterFrom(d, k) ==
    IF k > Len(d.test_cases) THEN <<>>
    ELSE SuiteTests(d.version, d.test_cases[k]) \o IterFrom(d, k + 1)

iter_tests(d) == IterFrom(d, 1)

slug(t) ==
    IF Truthy(t.formerly)
    THEN Some(StripSuffix(Lower(LastSegment(t.formerly[1], "/")), DotJson))
    ELSE IF Truthy(t.description) /\ t.description[1] # Placeholder
    THEN Some(Join(<<"_">>, Words(Lower(t.description[1]))))
    ELSE None

file_stem(t) == StripSuffix(StripSuffix(Lower(t.file_name), DotJson), SuiteSuffix)

schema_name(t) ==
    StripPrefix(StripSuffix(StripSuffix(Lower(t.schema_id), DotJson), DotSchema),
                SchemasPrefix)

test_id(t) ==
    <<"v">> \o ReplaceChar(t.version, ".", "_") \o <<":">> \o file_stem(t)
        \o <<":">> \o DecStr(t.index) \o <<":">> \o FormatOpt(slug(t))

----------------------------------------------------------------------------
(* The validator process and run_test *)

\* what json.loads(res.stdout) gives: json_ok = FALSE when it raises;
\* is_object = FALSE for a JSON value that is no object; has_valid = FALSE
\* for an object without the key "valid"
Stdout(json_ok, is_object, has_valid, valid, message) ==
    [json_ok |-> json_ok, is_object |-> is_object, has_valid |-> has_valid,
     valid |-> valid, message |-> message]

Completed(returncode, stdout, stderr) ==
    [returncode |-> returncode, stdout |-> stdout, stderr |-> stderr]

OutTrue == Stdout(TRUE, TRUE, TRUE, TRUE, Some("looks fine"))
OutFalse == Stdout(TRUE, TRUE, TRUE, FALSE, None)
OutGarbage == Stdout(FALSE, FALSE, FALSE, FALSE, None)
OutNoValid == Stdout(TRUE, TRUE, FALSE, FALSE, Some("no verdict"))

\* the behaviours of the validator a run may meet; the command is one the
\* host can start, so sp.run itself returns
ProcResults ==
    { Completed(0, OutTrue, ""),
      Completed(0, OutFalse, "warning"),
      Completed(0, OutGarbage, ""),
      Completed(0, OutNoValid, "") }
    \cup { Completed(rc, OutTrue, "traceback") : rc \in {1} }
    \cup { Completed(rc, OutGarbage, "") : rc \in {2} }

NotRun == Completed(0, OutGarbage, "")

\* CommandOutput.from_jso(json.loads(stdout))
CommandOutput_from_jso(stdout) ==
    IF ~stdout.json_ok THEN Raised
    ELSE IF ~stdout.is_object \/ ~stdout.has_valid THEN Raised
    ELSE Returned([valid |-> stdout.valid, message |-> stdout.message])

TestResult(status, message, stderr, return_code) ==
    [raised |-> FALSE, status |-> status, message |-> message,
     stderr |-> stderr, return_code |-> return_code]

\* the exception a future holds when run_test raised
Exception == [raised |-> TRUE, status |-> "none", message |-> None,
              stderr |-> "", return_code |-> 0]

NoResult == [raised |-> FALSE, status |-> "none", message |-> None,
             stderr |-> "", return_code |-> 0]

\* run_test with the verdict comparison inverted
run_test_swapped(test_data, res) ==
    IF res.returncode # 0
    THEN TestResult("error", None, res.stderr, res.returncode)
    ELSE LET out == CommandOutput_from_jso(res.stdout)
         IN  IF ~out.ok THEN Exception
             ELSE IF out.v.valid # test_data.valid
             THEN TestResult("pass", out.v.message, res.stderr, res.returncode)
             ELSE TestResult("fail", out.v.message, res.stderr, res.returncode)

\* run_test reporting every non-zero exit as return code 1
run_test_rc1(test_data, res) ==
    IF res.returncode # 0
    THEN TestResult("error", None, res.stderr, 1)
    ELSE LET out == CommandOutput_from_jso(res.stdout)
         IN  IF ~out.ok THEN Exception
             ELSE IF out.v.valid = test_data.valid
             THEN TestResult("pass", out.v.message, res.stderr, res.returncode)
             ELSE TestResult("fail", out.v.message, res.stderr, res.returncode)

\* run_test, given what the validator process did
run_test(test_data, res) ==
    IF res.returncode # 0
    THEN TestResult("error", None, res.stderr, res.returncode)
    ELSE LET out == CommandOutput_from_jso(res.stdout)
         IN  IF ~out.ok THEN Exception
             ELSE IF out.v.valid = test_data.valid
             THEN TestResult("pass", out.v.message, res.stderr, res.returncode)
             ELSE TestResult("fail", out.v.message, res.stderr, res.returncode)

----------------------------------------------------------------------------
(* Test Filter: the include / exclude loops of run_tests *)

\* for p in patterns: if p.search(test_id): ... break
RECURSIVE AnyMatch(_, _, _)
AnyMatch(patterns, i, id) ==
    IF i > Len(patterns) THEN FALSE
    ELSE IF Search(patterns[i], id) THEN TRUE
    ELSE AnyMatch(patterns, i + 1, id)

\* the filter with the exclude patterns looked at only when no include
\* pattern is given
Included_elif(includes, excludes, t) ==
    LET id == test_id(t)
    IN  IF includes # <<>> THEN AnyMatch(includes, 1, id)
        ELSE ~AnyMatch(excludes, 1, id)

Included(includes, excludes, t) ==
    LET id == test_id(t)
        include == IF includes # <<>> THEN AnyMatch(includes, 1, id) ELSE TRUE
    IN  IF include THEN ~AnyMatch(excludes, 1, id) ELSE FALSE

----------------------------------------------------------------------------
(* Command lines and pool size *)

\* max_workers of the pool (threads=None: decided by the host)
NThreads == 2

PatCore == <<"c","o","r","e">>
PatZero == <<":","0",":">>
PatOld == <<"o","l","d">>
PatImg == <<"i","m","g">>

IncludeArgs == {<<>>, <<PatCore>>, <<PatOld, PatImg>>}
ExcludeArgs == {<<>>, <<PatZero>>}
VersionArgs == {<<>>, <<V04>>, <<V05>>}

----------------------------------------------------------------------------
(* State *)

VARIABLES
    args,       \* the parsed command line
    archives,   \* for each version, the archive the cache or network holds
    pc,         \* where main is
    vtd,        \* the VersionTestData resolved so far
    cursor,     \* how many flattened cases the submit loop has looked at
    futs,       \* the futures of run_tests, in submission order
    rows,       \* the rows printed
    passes, failures, errors,
    exitCode    \* the process exit code, -1 while running

vars == <<args, archives, pc, vtd, cursor, futs, rows, passes, failures,
          errors, exitCode>>

\* versions of main
Versions ==
    IF args.ome_zarr_version = <<>> THEN DefaultVersions
    ELSE args.ome_zarr_version

\* args.include_pattern or [], args.exclude_pattern or []
Includes == args.include_pattern
Excludes == args.exclude_pattern

\* for d in data: for t in d.iter_tests()
RECURSIVE FlattenFrom(_, _)
FlattenFrom(data, k) ==
    IF k > Len(data) THEN <<>>
    ELSE iter_tests(data[k]) \o FlattenFrom(data, k + 1)

Flat == FlattenFrom(vtd, 1)

Future(test_data) ==
    [test_data |-> test_data, state |-> "pending", res |-> NotRun,
     result |-> NoResult, runs |-> 0, overtook |-> FALSE]

Init ==
    /\ args \in [ome_zarr_version : VersionArgs, no_exit_code : BOOLEAN,
                 include_pattern : IncludeArgs, exclude_pattern : ExcludeArgs]
    /\ archives \in {[v \in {V04, V05} |-> IF v = V04 THEN a ELSE b] :
                        a \in {"goodA", "nofetch", "badfixture"},
                        b \in {"goodB", "corrupt", "notjson"}}
    /\ pc = "resolve"
    /\ vtd = <<>>
    /\ cursor = 0
    /\ futs = <<>>
    /\ rows = <<>>
    /\ passes = 0
    /\ failures = 0
    /\ errors = 0
    /\ exitCode = -1

----------------------------------------------------------------------------
(* main: vtd = [get_data(v) for v in versions], one version per step *)

GetData ==
    /\ pc = "resolve"
    /\ LET v == Versions[Len(vtd) + 1]
           r == get_data(v, ArchiveOf(archives[v]))
       IN  IF r.ok
           THEN /\ vtd' = Append(vtd, r.v)
                /\ pc' = IF Len(vtd) + 1 = Len(Versions) THEN "submit" ELSE "resolve"
                /\ exitCode' = exitCode
           ELSE /\ pc' = "crashed"
                /\ exitCode' = 1
                /\ vtd' = vtd
    /\ UNCHANGED <<args, archives, cursor, futs, rows, passes, failures, errors>>

----------------------------------------------------------------------------
(* run_tests: the submit loop, the pool's workers, the result loop *)

\* futs.insert(0, pool.submit(run_test, cmd, t))
Submitted_front(fs, t) == <<Future(t)>> \o fs

\* futs.append(pool.submit(run_test, cmd, t))
Submitted(fs, t) == Append(fs, Future(t))

\* one iteration of "for t in d.iter_tests()"
Submit ==
    /\ pc = "submit"
    /\ cursor < Len(Flat)
    /\ LET t == Flat[cursor + 1]
       IN  futs' = IF Included(Includes, Excludes, t) THEN Submitted(futs, t)
                   ELSE futs
    /\ cursor' = cursor + 1
    /\ UNCHANGED <<args, archives, pc, vtd, rows, passes, failures, errors,
                   exitCode>>

\* the submit loop ends; the generator goes on to "for f in futs"
SubmitDone ==
    /\ pc = "submit"
    /\ cursor = Len(Flat)
    /\ pc' = "collect"
    /\ UNCHANGED <<args, archives, vtd, cursor, futs, rows, passes, failures,
                   errors, exitCode>>

Running == {i \in 1..Len(futs) : futs[i].state = "running"}

\* a worker thread takes the oldest queued work item and starts the
\* validator process (sp.run)
WorkerStart ==
    /\ Cardinality(Running) < NThreads
    /\ \E i \in 1..Len(futs) :
        /\ futs[i].state = "pending"
        /\ \A j \in 1..(i - 1) : futs[j].state # "pending"
        /\ futs' = [futs EXCEPT ![i].state = "running",
                                ![i].runs = futs[i].runs + 1]
    /\ UNCHANGED <<args, archives, pc, vtd, cursor, rows, passes, failures,
                   errors, exitCode>>

\* the validator process of a running work item ends; run_test classifies
\* it and the future is resolved
WorkerFinish ==
    /\ \E i \in Running, res \in ProcResults :
        futs' = [futs EXCEPT
                    ![i].state = "done",
                    ![i].res = res,
                    ![i].result = run_test(futs[i].test_data, res),
                    ![i].overtook =
                        \E j \in 1..(i - 1) : futs[j].state # "done"]
    /\ UNCHANGED <<args, archives, pc, vtd, cursor, rows, passes, failures,
                   errors, exitCode>>

\* the future whose result "for f in futs: yield f.result()" waits for next
NextFuture == Len(rows) + 1

Row(res_test_data, status) == [test_id |-> test_id(res_test_data), status |-> status]

\* yield f.result() and the body of main's loop for that result; a future
\* holding an exception re-raises it in the generator
Collect ==
    /\ pc = "collect"
    /\ NextFuture <= Len(futs)
    /\ futs[NextFuture].state = "done"
    /\ LET f == futs[NextFuture]
       IN  IF f.result.raised
           THEN /\ pc' = "unwinding"
                /\ UNCHANGED <<rows, passes, failures, errors>>
           ELSE /\ rows' = Append(rows, Row(f.test_data, f.result.status))
                /\ passes' = IF f.result.status = "pass" THEN passes + 1 ELSE passes
                /\ failures' = IF f.result.status = "fail" THEN failures + 1
                               ELSE failures
                /\ errors' = IF f.result.status = "error" THEN errors + 1
                             ELSE errors
                /\ pc' = pc
    /\ UNCHANGED <<args, archives, vtd, cursor, futs, exitCode>>

\* leaving "with ThreadPoolExecutor" on an exception: shutdown(wait=True)
\* lets every queued work item run, then the exception leaves main
Unwind ==
    /\ pc = "unwinding"
    /\ \A i \in 1..Len(futs) : futs[i].state = "done"
    /\ pc' = "crashed"
    /\ exitCode' = 1
    /\ UNCHANGED <<args, archives, vtd, cursor, futs, rows, passes, failures,
                   errors>>

\* the exit code with errors counted like failures
ExitCode_flat(no_exit_code, nfailures, nerrors) ==
    IF no_exit_code THEN 0
    ELSE LET c1 == IF nfailures # 0 THEN 1 ELSE 0
         IN  IF nerrors # 0 THEN c1 + 1 ELSE c1

\* the end of main: code = 0; if failures: code += 1; if errors: code += 2
ExitCode(no_exit_code, nfailures, nerrors) ==
    IF no_exit_code THEN 0
    ELSE LET c1 == IF nfailures # 0 THEN 1 ELSE 0
         IN  IF nerrors # 0 THEN c1 + 2 ELSE c1

\* every result was yielded: the summary line and sys.exit
Exit ==
    /\ pc = "collect"
    /\ NextFuture > Len(futs)
    /\ pc' = "exited"
    /\ exitCode' = ExitCode(args.no_exit_code, failures, errors)
    /\ UNCHANGED <<args, archives, vtd, cursor, futs, rows, passes, failures,
                   errors>>

Next ==
    \/ GetData
    \/ Submit
    \/ SubmitDone
    \/ WorkerStart
    \/ WorkerFinish
    \/ Collect
    \/ Unwind
    \/ Exit

Spec == Init /\ [][Next]_vars

----------------------------------------------------------------------------
(* Properties *)

Done(i) == i \in 1..Len(futs) /\ futs[i].state = "done"

\* the validator's standard output is a {valid, message?} object
Decodes(stdout) == stdout.json_ok /\ stdout.is_object /\ stdout.has_valid

\* the selection rule of the filter, on a test identifier
Selected(t) ==
    /\ \/ Includes = <<>>
       \/ \E i \in 1..Len(Includes) : Search(Includes[i], test_id(t))
    /\ ~\E j \in 1..Len(Excludes) : Search(Excludes[j], test_id(t))

\* C1: a validator that exits 0 with output that is not a {valid, message?}
\* object gives its case an "error" outcome, and the run goes on: no
\* exception leaves run_tests
C1_DecodeFailureIsErrorOutcome ==
    /\ \A i \in 1..Len(futs) :
          (Done(i) /\ futs[i].res.returncode = 0 /\ ~Decodes(futs[i].res.stdout))
              => (~futs[i].result.raised /\ futs[i].result.status = "error")
    /\ pc # "unwinding"

\* C2: a validator that exits 0 with decodable output gives "pass" exactly
\* when its verdict equals the expected validity, else "fail", never
\* "error", and the decoded message is the outcome's message
C2_ZeroExitClassification ==
    \A i \in 1..Len(futs) :
        (Done(i) /\ futs[i].res.returncode = 0 /\ Decodes(futs[i].res.stdout))
            => /\ ~futs[i].result.raised
               /\ futs[i].result.status \in {"pass", "fail"}
               /\ (futs[i].result.status = "pass")
                      <=> (futs[i].res.stdout.valid = futs[i].test_data.valid)
               /\ futs[i].result.message = futs[i].res.stdout.message

C2_Witness ==
    \E i, j \in 1..Len(futs) :
        /\ Done(i) /\ futs[i].res.returncode = 0 /\ Decodes(futs[i].res.stdout)
        /\ futs[i].result.status = "pass" /\ futs[i].result.message # None
        /\ Done(j) /\ futs[j].res.returncode = 0 /\ Decodes(futs[j].res.stdout)
        /\ futs[j].result.status = "fail"

\* C3: a validator that exits non-zero gives "error" with no message, the
\* captured stderr and the exact exit code, whatever it wrote to stdout
C3_NonZeroExitIsError ==
    \A i \in 1..Len(futs) :
        (Done(i) /\ futs[i].res.returncode # 0)
            => /\ ~futs[i].result.raised
               /\ futs[i].result.status = "error"
               /\ futs[i].result.message = None
               /\ futs[i].result.stderr = futs[i].res.stderr
               /\ futs[i].result.return_code = futs[i].res.returncode

C3_Witness ==
    \E i, j \in 1..Len(futs) :
        /\ Done(i) /\ futs[i].res.returncode = 1 /\ Decodes(futs[i].res.stdout)
        /\ futs[i].result.status = "error" /\ futs[i].result.stderr # ""
        /\ Done(j) /\ futs[j].res.returncode = 2 /\ ~Decodes(futs[j].res.stdout)
        /\ futs[j].result.return_code = 2

\* C4: once main has reported every outcome, the exit code is 0 with
\* --no-exit-code, and else 1 for failures plus 2 for errors (0 when there
\* are neither), whatever the number of passes
C4_ExitCode ==
    pc = "exited" =>
        /\ exitCode \in 0..3
        /\ args.no_exit_code => exitCode = 0
        /\ ~args.no_exit_code =>
              /\ (exitCode = 0) <=> (failures = 0 /\ errors = 0)
              /\ exitCode = (IF failures > 0 THEN 1 ELSE 0)
                                + (IF errors > 0 THEN 2 ELSE 0)

C4_Witness ==
    /\ pc = "exited"
    /\ ~args.no_exit_code
    /\ passes > 0 /\ failures > 0 /\ errors > 0
    /\ exitCode = 3

\* C5: the cases submitted are exactly the looked-at cases that (no include
\* pattern given, or some include pattern matches) and no exclude pattern
\* matches, in flatten order
C5_FilterSelection ==
    [i \in 1..Len(futs) |-> futs[i].test_data]
        = SelectSeq(SubSeq(Flat, 1, cursor), Selected)

C5_Witness ==
    /\ pc = "collect"
    /\ Len(futs) >= 1
    /\ \E k \in 1..Len(Flat) :
          /\ \E i \in 1..Len(Includes) : Search(Includes[i], test_id(Flat[k]))
          /\ \E j \in 1..Len(Excludes) : Search(Excludes[j], test_id(Flat[k]))
          /\ \A i \in 1..Len(futs) : futs[i].test_data # Flat[k]

RECURSIVE SumTests(_, _)
SumTests(test_cases, k) ==
    IF k > Len(test_cases) THEN 0
    ELSE Len(test_cases[k].test_case.tests) + SumTests(test_cases, k + 1)

\* C6: iter_tests of a resolved version yields as many cases as its suites
\* hold tests, numbers the tests of each suite 0..len-1 in fixture order,
\* and yields no (version, file_name, index) twice
C6_IterTests ==
    \A k \in 1..Len(vtd) :
        LET ts == iter_tests(vtd[k])
        IN  /\ Len(ts) = SumTests(vtd[k].test_cases, 1)
            /\ \A s \in 1..Len(vtd[k].test_cases) :
                  LET item == vtd[k].test_cases[s]
                      mine == SelectSeq(ts, LAMBDA t : t.file_name = item.file_name)
                  IN  /\ Len(mine) = Len(item.test_case.tests)
                      /\ \A i \in 1..Len(mine) :
                            /\ mine[i].index = i - 1
                            /\ mine[i].formerly = item.test_case.tests[i].formerly
                            /\ mine[i].description
                                   = item.test_case.tests[i].description
            /\ \A i, j \in 1..Len(ts) :
                  (/\ ts[i].version = ts[j].version
                   /\ ts[i].file_name = ts[j].file_name
                   /\ ts[i].index = ts[j].index) => i = j

C6_Witness ==
    \E k \in 1..Len(vtd) :
        /\ Len(vtd[k].test_cases) >= 2
        /\ \E s \in 1..Len(vtd[k].test_cases) :
              Len(vtd[k].test_cases[s].test_case.tests) >= 2
        /\ Len(iter_tests(vtd[k])) >= 2

\* C7: when the run ends, every submitted case had its validator started
\* exactly once and gave exactly one outcome to main, so the three
\* counters add up to the number of submitted cases
C7_OneOutcomePerIncludedCase ==
    pc \in {"exited", "crashed"} =>
        /\ \A i \in 1..Len(futs) : futs[i].runs = 1
        /\ Len(rows) = Len(futs)
        /\ passes + failures + errors = Len(futs)

\* the archive cannot be fetched, cannot be read, or holds a fixture file
\* under tests/ that does not decode into the suite schema
BadFixtureFile(entry) ==
    LET parts == SplitOnce(entry.filename, "/")
    IN  /\ Len(parts) = 2
        /\ StartsWith(parts[2], TestPrefix)
        /\ EndsWith(parts[2], DotJson)
        /\ \/ ~entry.content.json_ok
           \/ entry.content.missing # {}
           \/ \E i \in 1..Len(entry.content.tests) :
                 entry.content.tests[i].missing # {}

ResolutionFails(archive) ==
    \/ ~archive.cached /\ ~archive.fetch_ok
    \/ ~archive.zip_ok
    \/ \E e \in 1..Len(archive.entries) : BadFixtureFile(archive.entries[e])

\* C8: when the fixtures of some requested version do not resolve, no
\* validator is ever started and no row is ever printed, also for the
\* versions that resolved, and the run ends with a non-zero exit code
C8_FixtureFailureIsFatal ==
    (\E k \in 1..Len(Versions) : ResolutionFails(ArchiveOf(archives[Versions[k]])))
        => /\ futs = <<>>
           /\ rows = <<>>
           /\ pc \in {"resolve", "crashed"}
           /\ pc = "crashed" => exitCode > 0

C8_Witness ==
    /\ pc = "crashed"
    /\ Len(vtd) = 1
    /\ Len(iter_tests(vtd[1])) >= 1
    /\ \E e \in 1..Len(ArchiveOf(archives[Versions[2]]).entries) :
          BadFixtureFile(ArchiveOf(archives[Versions[2]]).entries[e])
    /\ futs = <<>> /\ rows = <<>>

\* the slug as the identifier format describes it: from the former name
\* when there is one (a non-empty one), else from the description when
\* there is one other than "TBD", else empty
DocumentedSlug(t) ==
    IF Truthy(t.formerly)
    THEN StripSuffix(Lower(LastSegment(t.formerly[1], "/")), DotJson)
    ELSE IF Truthy(t.description) /\ t.description[1] # Placeholder
    THEN Join(<<"_">>, Words(Lower(t.description[1])))
    ELSE <<>>

\* C9: test_id is v<version with _ for .>:<file stem>:<index>:<slug>, with
\* an empty slug when the case has neither a former name nor a description
\* other than "TBD"
C9_TestIdFormat ==
    \A i \in 1..Len(Flat) :
        test_id(Flat[i]) =
            <<"v">> \o ReplaceChar(Flat[i].version, ".", "_") \o <<":">>
                \o file_stem(Flat[i]) \o <<":">> \o DecStr(Flat[i].index)
                \o <<":">> \o DocumentedSlug(Flat[i])

\* C10: no row is printed before every selected case is submitted, the
\* rows follow flatten / filter order whatever the order in which the
\* validators end, and the counters count the rows printed
C10_SubmissionOrder ==
    /\ rows # <<>> => (pc # "submit" /\ cursor = Len(Flat))
    /\ Len(rows) <= Len(SelectSeq(Flat, Selected))
    /\ \A i \in 1..Len(rows) :
          /\ rows[i].test_id = test_id(SelectSeq(Flat, Selected)[i])
          /\ rows[i].status = futs[i].result.status
    /\ passes = Cardinality({i \in 1..Len(rows) : rows[i].status = "pass"})
    /\ failures = Cardinality({i \in 1..Len(rows) : rows[i].status = "fail"})
    /\ errors = Cardinality({i \in 1..Len(rows) : rows[i].status = "error"})

C10_Witness ==
    /\ Len(rows) >= 3
    /\ futs[2].overtook
    /\ futs[3].overtook
    /\ rows[1].test_id # rows[2].test_id

====
